---- MODULE Spec2Model ----
(***************************************************************************)
(* A model of the RAG demo: DocumentProcessor (chunking and metadata),     *)
(* VectorStore (a wrapper around one named collection of an embedded       *)
(* vector database), RAGSystem (indexing and question answering) and       *)
(* RAGAgent (the alternate implementation).                                *)
(*                                                                         *)
(* Python strings are sequences of one-character strings, so that strip,   *)
(* split, join and formatting are computed and not assumed.  The Russian   *)
(* literals of the source are transliterated letter by letter (the module  *)
(* is ASCII only); their lengths are those of the source.                  *)
(***************************************************************************)
EXTENDS Integers, Sequences, FiniteSets, TLC

VARIABLES
    \* DocumentProcessor driver
    procPaper,     \* the paper handed to process_paper
    procOut,       \* what process_paper returned: [raised, docs]
    procCorpus,    \* the papers handed to process_corpus
    corpusOut,     \* what process_corpus returned: [raised, docs]
    \* RAGSystem / VectorStore
    files,         \* the corpus directory: file name -> paper (JSON)
    db,            \* the vector database: the named collection, if it exists
    handle,        \* VectorStore.collection: the uid of the collection it refers to
    llm,           \* RAGSystem.llm is configured (an OpenAI key was found)
    pc,            \* position inside initialize_system ("idle" outside it)
    papers,        \* initialize_system's local: the loaded corpus
    documents,     \* initialize_system's local: the chunks
    call,          \* bookkeeping of the running/last initialize_system call
    last,          \* the last completed operation and what it returned
    \* RAGAgent
    agentEnv,      \* OPENAI_API_KEY is set in the environment
    agentCorpus,   \* the files of CORPUS_PATH
    indexStore,    \* what is persisted at INDEX_PATH (None when the path is absent)
    agent,         \* the constructed RAGAgent, if any
    agentLast      \* the last RAGAgent operation and its outcome

procVars  == <<procPaper, procOut, procCorpus, corpusOut>>
ragVars   == <<files, db, handle, llm, pc, papers, documents, call, last>>
agentVars == <<agentEnv, agentCorpus, indexStore, agent, agentLast>>
vars      == <<procVars, ragVars, agentVars>>
notRag    == <<procVars, agentVars>>
notProc   == <<ragVars, agentVars>>
notAgent  == <<ragVars, procVars>>

(***************************************************************************)
(* Python str helpers                                                      *)
(***************************************************************************)
Whitespace == {" ", "\n", "\t"}

RECURSIVE lstrip(_)
lstrip(s) ==
    IF s # <<>> /\ Head(s) \in Whitespace THEN lstrip(Tail(s)) ELSE s

RECURSIVE rstrip(_)
rstrip(s) ==
    IF s # <<>> /\ s[Len(s)] \in Whitespace
    THEN rstrip(SubSeq(s, 1, Len(s) - 1)) ELSE s

strip(s) == rstrip(lstrip(s))

Digits == <<"0", "1", "2", "3", "4", "5", "6", "7", "8", "9">>

\* str(n) for a non-negative int
RECURSIVE str(_)
str(n) ==
    IF n < 10 THEN <<Digits[n + 1]>>
    ELSE str(n \div 10) \o <<Digits[(n % 10) + 1]>>

\* sep.join(parts)
RECURSIVE join(_, _)
join(sep, parts) ==
    IF parts = <<>> THEN <<>>
    ELSE IF Len(parts) = 1 THEN parts[1]
    ELSE parts[1] \o sep \o join(sep, Tail(parts))

\* s occurs in text at position i
OccursAt(text, s, i) ==
    /\ i >= 1
    /\ i + Len(s) - 1 <= Len(text)
    /\ SubSeq(text, i, i + Len(s) - 1) = s

Contains(text, s) == \E i \in 1..(Len(text) + 1) : OccursAt(text, s, i)

\* dict.update: the keys of new override those of old
Update(old, new) == new @@ old

(***************************************************************************)
(* String literals of the source                                           *)
(***************************************************************************)
S_text    == <<"t", "e", "x", "t">>
S_table   == <<"t", "a", "b", "l", "e">>
S_image   == <<"i", "m", "a", "g", "e">>
S_section == <<"_", "s", "e", "c", "t", "i", "o", "n", "_">>
S_chunk   == <<"_", "c", "h", "u", "n", "k", "_">>
S_tableId == <<"_", "t", "a", "b", "l", "e", "_">>
S_imageId == <<"_", "i", "m", "a", "g", "e", "_">>
S_comma   == <<",", " ">>
\* "Tablica " (document_processor.py:109)
S_tableHeader == <<"T", "a", "b", "l", "i", "c", "a", " ">>
\* "Izobrajenie " (document_processor.py:134)
S_imageHeader == <<"I", "z", "o", "b", "r", "a", "j", "e", "n", "i", "e", " ">>
\* ": [Izobrajenie v formate base64]" (document_processor.py:134)
S_imagePlaceholder ==
    <<":", " ", "[", "I", "z", "o", "b", "r", "a", "j", "e", "n", "i", "e", " ",
      "v", " ", "f", "o", "r", "m", "a", "t", "e", " ",
      "b", "a", "s", "e", "6", "4", "]">>

(***************************************************************************)
(* Bounds                                                                  *)
(***************************************************************************)
\* DocumentProcessor(chunk_size, chunk_overlap); Config sets 1000 and 200,
\* the model runs the same splitter with a small window.
ChunkSize    == 4
ChunkOverlap == 1

(***************************************************************************)
(* RecursiveCharacterTextSplitter, as configured in                        *)
(* DocumentProcessor.__init__ (keep_separator and strip_whitespace are     *)
(* the library defaults, True)                                             *)
(***************************************************************************)
Separators == << <<"\n", "\n">>, <<"\n">>, <<".", " ">>, <<" ">>, <<>> >>

\* re.split(sep, text): the pieces between the leftmost non-overlapping
\* occurrences of sep
RECURSIVE SplitPieces(_, _, _)
SplitPieces(text, sep, i) ==
    IF i + Len(sep) - 1 > Len(text) THEN <<text>>
    ELSE IF OccursAt(text, sep, i)
         THEN <<SubSeq(text, 1, i - 1)>>
              \o SplitPieces(SubSeq(text, i + Len(sep), Len(text)), sep, 1)
         ELSE SplitPieces(text, sep, i + 1)

\* _split_text_with_regex(text, separator, keep_separator=True): the
\* separator stays at the start of the piece that follows it; empty pieces
\* are dropped; the empty separator splits into characters
SplitKeep(text, sep) ==
    IF sep = <<>> THEN [i \in 1..Len(text) |-> <<text[i]>>]
    ELSE LET pieces == SplitPieces(text, sep, 1)
             glued  == [i \in 1..Len(pieces) |->
                            IF i = 1 THEN pieces[1] ELSE sep \o pieces[i]]
         IN  SelectSeq(glued, LAMBDA p : p # <<>>)

\* _join_docs: join, strip, None (here: nothing) when empty
JoinDocs(current) ==
    LET t == strip(join(<<>>, current))
    IN  IF t = <<>> THEN <<>> ELSE <<t>>

RECURSIVE SumLen(_)
SumLen(parts) ==
    IF parts = <<>> THEN 0 ELSE Len(Head(parts)) + SumLen(Tail(parts))

\* the popping loop of _merge_splits (separator length 0)
RECURSIVE PopWhile(_, _)
PopWhile(current, len) ==
    LET total == SumLen(current)
    IN  IF total > ChunkOverlap \/ (total + len > ChunkSize /\ total > 0)
        THEN PopWhile(Tail(current), len)
        ELSE current

\* _merge_splits(splits, separator = "")
RECURSIVE MergeLoop(_, _, _, _)
MergeLoop(splits, i, current, docs) ==
    IF i > Len(splits) THEN docs \o JoinDocs(current)
    ELSE LET d == splits[i]
             over == SumLen(current) + Len(d) > ChunkSize
         IN  IF over /\ current # <<>>
             THEN MergeLoop(splits, i + 1,
                            Append(PopWhile(current, Len(d)), d),
                            docs \o JoinDocs(current))
             ELSE MergeLoop(splits, i + 1, Append(current, d), docs)

MergeSplits(splits) == MergeLoop(splits, 1, <<>>, <<>>)

\* the first separator that occurs in the text ("" always does)
RECURSIVE PickSeparator(_, _, _)
PickSeparator(text, seps, i) ==
    IF i > Len(seps) THEN [sep |-> seps[Len(seps)], rest |-> <<>>]
    ELSE IF seps[i] = <<>> THEN [sep |-> <<>>, rest |-> <<>>]
    ELSE IF Contains(text, seps[i])
         THEN [sep |-> seps[i], rest |-> SubSeq(seps, i + 1, Len(seps))]
         ELSE PickSeparator(text, seps, i + 1)

RECURSIVE SplitText(_, _)
RECURSIVE SplitLoop(_, _, _, _, _)
SplitLoop(splits, i, good, final, rest) ==
    IF i > Len(splits)
    THEN IF good # <<>> THEN final \o MergeSplits(good) ELSE final
    ELSE LET s == splits[i]
         IN  IF Len(s) < ChunkSize
             THEN SplitLoop(splits, i + 1, Append(good, s), final, rest)
             ELSE LET flushed == IF good # <<>> THEN final \o MergeSplits(good)
                                 ELSE final
                      sub == IF rest = <<>> THEN <<s>> ELSE SplitText(s, rest)
                  IN  SplitLoop(splits, i + 1, <<>>, flushed \o sub, rest)

\* RecursiveCharacterTextSplitter._split_text(text, separators)
SplitText(text, seps) ==
    LET p == PickSeparator(text, seps, 1)
    IN  SplitLoop(SplitKeep(text, p.sep), 1, <<>>, <<>>, p.rest)

split_textWhole(text) == IF strip(text) = <<>> THEN <<>> ELSE <<strip(text)>>

\* self.text_splitter.split_text(text)
split_text(text) == SplitText(text, Separators)

(***************************************************************************)
(* DocumentProcessor                                                       *)
(***************************************************************************)
Document(page_content, metadata) ==
    [page_content |-> page_content, metadata |-> metadata]

PaperKeys   == {"id", "title", "authors", "categories", "abstract",
                "published", "updated", "sections"}
SectionKeys == {"text", "tables", "images"}

\* paper[...] / section[...] raise KeyError on a missing key
PaperRaises(paper) ==
    \/ ~(PaperKeys \subseteq DOMAIN paper)
    \/ \E i \in 1..Len(paper.sections) :
           ~(SectionKeys \subseteq DOMAIN paper.sections[i])

\* the base metadata of process_paper
BaseMetadata(paper) ==
    [paper_id   |-> paper.id,
     title      |-> paper.title,
     authors    |-> join(S_comma, paper.authors),
     categories |-> join(S_comma, paper.categories),
     abstract   |-> paper.abstract,
     published  |-> paper.published,
     updated    |-> paper.updated]

TextChunkId(paper_id, section_idx, chunk_idx) ==
    paper_id \o S_section \o str(section_idx) \o S_chunk \o str(chunk_idx)

TableChunkId(paper_id, section_idx, table_id) ==
    paper_id \o S_section \o str(section_idx) \o S_tableId \o table_id

ImageChunkId(paper_id, section_idx, image_id) ==
    paper_id \o S_section \o str(section_idx) \o S_imageId \o image_id

\* chunk_idx counts from 0 (enumerate)
_process_text_section(text, metadata, section_idx) ==
    IF strip(text) = <<>> THEN <<>>
    ELSE LET chunks == split_text(text)
         IN  [k \in 1..Len(chunks) |->
                 Document(chunks[k],
                          Update(metadata,
                                 [content_type |-> S_text,
                                  chunk_id     |-> TextChunkId(metadata.paper_id,
                                                               section_idx, k - 1),
                                  chunk_index  |-> k - 1]))]

TableText(table_id, table_content) ==
    S_tableHeader \o table_id \o <<":", "\n">> \o table_content

\* tables: the dict's items in iteration order, <<table_id, table_content>>
RECURSIVE _process_tables(_, _, _)
_process_tables(tables, metadata, section_idx) ==
    IF tables = <<>> THEN <<>>
    ELSE LET table_id      == Head(tables)[1]
             table_content == Head(tables)[2]
             rest == _process_tables(Tail(tables), metadata, section_idx)
         IN  IF strip(table_content) = <<>> THEN rest
             ELSE <<Document(TableText(table_id, table_content),
                             Update(metadata,
                                    [content_type |-> S_table,
                                     table_id     |-> table_id,
                                     chunk_id     |-> TableChunkId(metadata.paper_id,
                                                                   section_idx,
                                                                   table_id)]))>>
                  \o rest

ImageTextWithData(image_id, image_content) ==
    S_imageHeader \o image_id \o <<":", " ">> \o image_content

ImageText(image_id, image_content) ==
    S_imageHeader \o image_id \o S_imagePlaceholder

RECURSIVE _process_images(_, _, _)
_process_images(images, metadata, section_idx) ==
    IF images = <<>> THEN <<>>
    ELSE LET image_id      == Head(images)[1]
             image_content == Head(images)[2]
             rest == _process_images(Tail(images), metadata, section_idx)
         IN  IF strip(image_content) = <<>> THEN rest
             ELSE <<Document(ImageText(image_id, image_content),
                             Update(metadata,
                                    [content_type |-> S_image,
                                     image_id     |-> image_id,
                                     chunk_id     |-> ImageChunkId(metadata.paper_id,
                                                                   section_idx,
                                                                   image_id),
                                     image_base64 |-> image_content]))>>
                  \o rest

SectionMetadataOneBased(metadata, section_idx) ==
    Update(metadata, [section_id |-> section_idx + 1])

\* section_metadata = metadata.copy(); section_metadata["section_id"] = section_idx
SectionMetadata(metadata, section_idx) ==
    Update(metadata, [section_id |-> section_idx])

\* one iteration of process_paper's loop; section_idx counts from 0
ProcessSection(section, metadata, section_idx) ==
    LET section_metadata == SectionMetadata(metadata, section_idx)
    IN  (IF section.text # <<>>
         THEN _process_text_section(section.text, section_metadata, section_idx)
         ELSE <<>>)
        \o (IF section.tables # <<>>
            THEN _process_tables(section.tables, section_metadata, section_idx)
            ELSE <<>>)
        \o (IF section.images # <<>>
            THEN _process_images(section.images, section_metadata, section_idx)
            ELSE <<>>)

RECURSIVE ProcessSections(_, _, _)
ProcessSections(sections, metadata, i) ==
    IF i > Len(sections) THEN <<>>
    ELSE ProcessSection(sections[i], metadata, i - 1)
         \o ProcessSections(sections, metadata, i + 1)

\* A corpus file holds any JSON value.  A value that is not an object (an
\* array, a string, a number, null) is written [json |-> <its kind>].
NotADict == [json |-> "array"]
IsDict(paper) == "json" \notin DOMAIN paper

\* process_paper: [raised, docs]; an exception leaves no document behind.
\* paper["id"] on a value that is not a dict raises TypeError.
process_paper(paper) ==
    IF ~IsDict(paper) THEN [raised |-> "TypeError", docs |-> <<>>]
    ELSE IF PaperRaises(paper) THEN [raised |-> "KeyError", docs |-> <<>>]
    ELSE [raised |-> "none",
          docs   |-> ProcessSections(paper.sections, BaseMetadata(paper), 1)]

\* process_corpus: [raised, docs].  The exception of a paper is caught and
\* logged with paper.get('id', 'unknown'), which itself raises
\* AttributeError, out of process_corpus, when the paper is not a dict.
RECURSIVE process_corpus(_)
process_corpus(ps) ==
    IF ps = <<>> THEN [raised |-> "none", docs |-> <<>>]
    ELSE LET done == process_paper(Head(ps))
         IN  IF done.raised # "none" /\ ~IsDict(Head(ps))
             THEN [raised |-> "AttributeError", docs |-> <<>>]
             ELSE LET rest == process_corpus(Tail(ps))
                  IN  IF rest.raised # "none" THEN rest
                      ELSE [raised |-> "none", docs |-> done.docs \o rest.docs]

(***************************************************************************)
(* Inputs of the DocumentProcessor driver                                  *)
(***************************************************************************)
MaxSections == 2

\* section texts: empty, blank, one chunk, several chunks (with and without
\* separators)
ProcTexts ==
    { <<>>,
      <<" ", "\n">>,
      <<"a", "b">>,
      <<"c", "d", " ", "e", "f", "g", "h", "i", ".", " ", "j">>,
      <<"k", "l", "m", "n", "o", "p", "q">> }

\* tables and images of a section: dict items <<id, content>>
ProcTables ==
    { <<>>,
      << <<<<"t", "1">>, <<"x", "|", "y", "\n", "1", "|", "2", " ", "z">>>> >>,
      << <<<<"t", "1">>, <<" ">>>>, <<<<"t", "2">>, <<"w">>>> >> }

ProcImages ==
    { <<>>,
      << <<<<"i", "1">>, <<"Q", "U", "J", "D", "R", "Q", "=", "=">>>> >>,
      << <<<<"i", "1">>, <<"\n">>>>, <<<<"i", "2">>, <<"R", "w">>>> >> }

ProcSections ==
    { [text |-> t, tables |-> <<>>, images |-> <<>>] : t \in ProcTexts }
    \cup { [text |-> <<"a", "b">>, tables |-> tb, images |-> im] :
               tb \in ProcTables, im \in ProcImages }

RECURSIVE SeqsUpTo(_, _)
SeqsUpTo(S, n) ==
    IF n = 0 THEN { <<>> }
    ELSE LET shorter == SeqsUpTo(S, n - 1)
         IN  shorter \cup { Append(q, x) : q \in shorter, x \in S }

PaperOf(id, sections) ==
    [id         |-> id,
     title      |-> <<"T", "-">> \o id,
     authors    |-> << <<"A">>, <<"B">> >>,
     categories |-> << <<"c", "s">> >>,
     abstract   |-> <<"a", "b", "s">>,
     published  |-> <<"2", "4">>,
     updated    |-> <<"2", "5">>,
     sections   |-> sections]

\* a paper without "title", and one whose second section has no "images"
BrokenPapers ==
    { [id |-> <<"p">>, authors |-> << <<"A">> >>, categories |-> <<>>,
       abstract |-> <<>>, published |-> <<>>, updated |-> <<>>,
       sections |-> << [text |-> <<"a", "b">>, tables |-> <<>>, images |-> <<>>] >>],
      PaperOf(<<"q">>, << [text |-> <<"a", "b">>, tables |-> <<>>, images |-> <<>>],
                         [text |-> <<"a", "b">>, tables |-> <<>>] >>) }

ProcPapers ==
    { PaperOf(id, ss) : id \in { <<"p">>, <<"q">> },
                        ss \in SeqsUpTo(ProcSections, MaxSections) }
    \cup BrokenPapers

Pending == [raised |-> "pending", docs |-> <<>>]

(***************************************************************************)
(* Optional values: None is <<>>, a given value x is <<x>>                 *)
(***************************************************************************)
NoneV   == <<>>
Some(x) == <<x>>

\* Python truthiness of an optional int / an optional str
TruthyInt(o) == o # NoneV /\ o[1] # 0
TruthyStr(o) == o # NoneV /\ o[1] # <<>>

Range(f) == { f[x] : x \in DOMAIN f }

(***************************************************************************)
(* The embedded vector database, as VectorStore uses it: one named         *)
(* collection, ids -> (document, metadata)                                 *)
(***************************************************************************)
NoCollection    == [exists |-> FALSE, entries |-> <<>>]
EmptyCollection == [exists |-> TRUE, entries |-> <<>>]

\* the Collection object of self.collection is usable
HandleLive == handle = "current" /\ db.exists

HasDuplicates(ids) ==
    \E i, j \in 1..Len(ids) : i < j /\ ids[i] = ids[j]

\* collection.add(ids, documents, metadatas): a batch that repeats an id
\* is refused; an id the collection already holds is left as it is stored
CollectionAdd(entries, ids, texts, metadatas) ==
    IF HasDuplicates(ids)
    THEN [raised |-> "DuplicateIDError", entries |-> entries]
    ELSE [raised |-> "none",
          entries |->
              [id \in (DOMAIN entries) \cup Range(ids) |->
                  IF id \in DOMAIN entries THEN entries[id]
                  ELSE LET k == CHOOSE k \in 1..Len(ids) : ids[k] = id
                       IN  [text |-> texts[k], metadata |-> metadatas[k]]]]

\* the equality filter of collection.query / collection.get:
\* where is None or <<key, value>>
Matches(entry, where) ==
    \/ where = NoneV
    \/ /\ where[1][1] \in DOMAIN entry.metadata
       /\ entry.metadata[where[1][1]] = where[1][2]

\* The embedding is the database's business.  The model embeds a text as
\* its bag of characters and measures the L1 distance.
CharCount(t, c) == Cardinality({ i \in 1..Len(t) : t[i] = c })

RECURSIVE SumOver(_, _, _)
SumOver(S, a, b) ==
    IF S = {} THEN 0
    ELSE LET c == CHOOSE c \in S : TRUE
             x == CharCount(a, c) - CharCount(b, c)
         IN  (IF x < 0 THEN -x ELSE x) + SumOver(S \ {c}, a, b)

Distance(query, text) == SumOver(Range(query) \cup Range(text), query, text)

\* the k nearest ids of M, nearest first; equal distances in any order
RECURSIVE Rankings(_, _, _, _)
Rankings(entries, M, query, k) ==
    IF k = 0 \/ M = {} THEN { <<>> }
    ELSE LET best == { x \in M : \A y \in M :
                          Distance(query, entries[x].text)
                              <= Distance(query, entries[y].text) }
         IN  UNION { { <<x>> \o r : r \in Rankings(entries, M \ {x}, query, k - 1) }
                     : x \in best }

\* collection.query(query_texts=[query], n_results, where): the outcomes
CollectionQuery(query, n_results, where) ==
    IF ~HandleLive THEN { [raised |-> "NotFound", ids |-> <<>>] }
    ELSE IF n_results <= 0 THEN { [raised |-> "ValueError", ids |-> <<>>] }
    ELSE { [raised |-> "none", ids |-> r] :
              r \in Rankings(db.entries,
                             { x \in DOMAIN db.entries : Matches(db.entries[x], where) },
                             query, n_results) }

(***************************************************************************)
(* VectorStore                                                             *)
(***************************************************************************)
\* "chunk_" (vector_store.py:71)
S_fallbackId ==
    <<"c", "h", "u", "n", "k", "_">>

\* doc.metadata.get("chunk_id", f"chunk_{len(ids)}"): pos is 1-based here
DocId(doc, pos) ==
    IF "chunk_id" \in DOMAIN doc.metadata THEN doc.metadata.chunk_id
    ELSE S_fallbackId \o str(pos - 1)

\* A Python value carries its type.  In this model the type of a metadata
\* value is fixed by its key: the DocumentProcessor's section_id and
\* chunk_index are ints, pages is a list of str, doi is None, score is a
\* float, reviewed is a bool, every other value is a str.
ScalarTypes == {"str", "int", "float", "bool"}

MetadataType(key) ==
    IF key \in {"section_id", "chunk_index"} THEN "int"
    ELSE IF key = "pages" THEN "list"
    ELSE IF key = "doi" THEN "NoneType"
    ELSE IF key = "score" THEN "float"
    ELSE IF key = "reviewed" THEN "bool"
    ELSE "str"

\* str(value) of None and of a list of str
PyStrOf(type, value) ==
    IF type = "NoneType" THEN <<"N", "o", "n", "e">>
    ELSE <<"[">>
         \o join(<<",", " ">>,
                 [i \in 1..Len(value) |-> <<"'">> \o value[i] \o <<"'">>])
         \o <<"]">>

CleanMetadataDroppingOthers(metadata) ==
    [key \in { k \in DOMAIN metadata : MetadataType(k) \in ScalarTypes }
        |-> metadata[key]]

\* clean_metadata: str, int, float and bool values are kept, the others
\* are replaced by their str()
CleanMetadata(metadata) ==
    [key \in DOMAIN metadata |->
        IF MetadataType(key) \in ScalarTypes THEN metadata[key]
        ELSE PyStrOf(MetadataType(key), metadata[key])]

\* the ids add_documents submits for docs
SubmittedIds(docs) == [k \in 1..Len(docs) |-> DocId(docs[k], k)]

\* add_documents: [raised, entries] (the collection's entries afterwards)
add_documents(docs) ==
    IF docs = <<>> THEN [raised |-> "none", entries |-> db.entries]
    ELSE IF ~HandleLive THEN [raised |-> "NotFound", entries |-> db.entries]
    ELSE CollectionAdd(db.entries,
                       SubmittedIds(docs),
                       [k \in 1..Len(docs) |-> docs[k].page_content],
                       [k \in 1..Len(docs) |-> CleanMetadata(docs[k].metadata)])

\* the dicts search builds from the ids the query returned
SearchResult(query, ids) ==
    [i \in 1..Len(ids) |->
        [content  |-> db.entries[ids[i]].text,
         metadata |-> db.entries[ids[i]].metadata,
         distance |-> Distance(query, db.entries[ids[i]].text),
         id       |-> ids[i]]]

searchReportingFailure(query, n_results, where) ==
    { IF o.raised = "none" THEN SearchResult(query, o.ids)
      ELSE << [content |-> <<>>, metadata |-> <<>>, distance |-> 0, id |-> <<>>] >> :
          o \in CollectionQuery(query, n_results, where) }

\* search: the result lists it can return; an exception gives []
search(query, n_results, where) ==
    { IF o.raised = "none" THEN SearchResult(query, o.ids) ELSE <<>> :
          o \in CollectionQuery(query, n_results, where) }

\* get_collection_info()["document_count"], None when count() raises
document_count ==
    IF HandleLive THEN Some(Cardinality(DOMAIN db.entries)) ELSE NoneV

(***************************************************************************)
(* RAGSystem: literals                                                     *)
(***************************************************************************)
\* "[Dokument " (rag_system.py:203)
S_docOpen ==
    <<"[", "D", "o", "k", "u", "m", "e", "n", "t", " ">>
\* "]\n" (rag_system.py:203)
S_docClose ==
    <<"]", "\n">>
\* "Stat'a: " (rag_system.py:204)
S_paper ==
    <<"S", "t", "a", "t", "'", "a", ":", " ">>
\* "Sekcia: " (rag_system.py:205)
S_sectionLabel ==
    <<"S", "e", "k", "c", "i", "a", ":", " ">>
\* "Tip kontenta: " (rag_system.py:206)
S_typeLabel ==
    <<"T", "i", "p", " ", "k", "o", "n", "t", "e", "n", "t", "a", ":", " ">>
\* "Soderjanie:\n" (rag_system.py:207)
S_contentLabel ==
    <<"S", "o", "d", "e", "r", "j", "a", "n", "i", "e", ":", "\n">>
\* "Neizvestnaa stat'a" (rag_system.py:199)
S_unknownPaper ==
    <<"N", "e", "i", "z", "v", "e", "s", "t", "n", "a", "a", " ", "s", "t",
      "a", "t", "'", "a">>
\* "N/A" (rag_system.py:200)
S_NA ==
    <<"N", "/", "A">>
\* "Azykovaa model' ne nastroena. Pojaluista, nastroite OpenAI API kluc." (rag_system.py:142)
S_noLLMAnswer ==
    <<"A", "z", "y", "k", "o", "v", "a", "a", " ", "m", "o", "d", "e", "l",
      "'", " ", "n", "e", " ", "n", "a", "s", "t", "r", "o", "e", "n", "a",
      ".", " ", "P", "o", "j", "a", "l", "u", "i", "s", "t", "a", ",", " ",
      "n", "a", "s", "t", "r", "o", "i", "t", "e", " ", "O", "p", "e", "n",
      "A", "I", " ", "A", "P", "I", " ", "k", "l", "u", "c", ".">>
\* "LLM not configured" (rag_system.py:144)
S_noLLMError ==
    <<"L", "L", "M", " ", "n", "o", "t", " ", "c", "o", "n", "f", "i", "g",
      "u", "r", "e", "d">>
\* "Ne naideno relevantnyh dokumentov dla otveta na vaw vopros." (rag_system.py:153)
S_noDocsAnswer ==
    <<"N", "e", " ", "n", "a", "i", "d", "e", "n", "o", " ", "r", "e", "l",
      "e", "v", "a", "n", "t", "n", "y", "h", " ", "d", "o", "k", "u", "m",
      "e", "n", "t", "o", "v", " ", "d", "l", "a", " ", "o", "t", "v", "e",
      "t", "a", " ", "n", "a", " ", "v", "a", "w", " ", "v", "o", "p", "r",
      "o", "s", ".">>
\* "No relevant documents found" (rag_system.py:155)
S_noDocsError ==
    <<"N", "o", " ", "r", "e", "l", "e", "v", "a", "n", "t", " ", "d", "o",
      "c", "u", "m", "e", "n", "t", "s", " ", "f", "o", "u", "n", "d">>
\* "Proizowla owibka pri generacii otveta: " (rag_system.py:183)
S_failedAnswer ==
    <<"P", "r", "o", "i", "z", "o", "w", "l", "a", " ", "o", "w", "i", "b",
      "k", "a", " ", "p", "r", "i", " ", "g", "e", "n", "e", "r", "a", "c",
      "i", "i", " ", "o", "t", "v", "e", "t", "a", ":", " ">>

\* Config
TOP_K_RESULTS == 5
SeparatorWidth == 50

SystemInfo ==
    [collection_name |-> "arxiv_papers",
     embedding_model |-> "sentence-transformers/all-MiniLM-L6-v2",
     llm_model       |-> "gpt-3.5-turbo"]

(***************************************************************************)
(* RAGSystem._format_context                                               *)
(***************************************************************************)
Repeat(c, n) == [i \in 1..n |-> c]

\* metadata.get(key, default), formatted into an f-string
GetStr(metadata, key, default) ==
    IF key \in DOMAIN metadata THEN metadata[key] ELSE default

\* the block of document number i (enumerate(documents, 1))
ContextPart(doc, i) ==
    S_docOpen \o str(i) \o S_docClose
    \o S_paper \o GetStr(doc.metadata, "title", S_unknownPaper) \o <<"\n">>
    \o S_sectionLabel
    \o (IF "section_id" \in DOMAIN doc.metadata
        THEN str(doc.metadata.section_id) ELSE S_NA) \o <<"\n">>
    \o S_typeLabel \o GetStr(doc.metadata, "content_type", S_text) \o <<"\n">>
    \o S_contentLabel \o doc.content \o <<"\n">>

\* "\n" + "="*50 + "\n".join(context_parts)
_format_context(docs) ==
    <<"\n">> \o Repeat("=", SeparatorWidth)
    \o join(<<"\n">>, [i \in 1..Len(docs) |-> ContextPart(docs[i], i)])

(***************************************************************************)
(* The chain of generate_answer.  A value handed to the prompt template is *)
(* a Python object: a str, or the dict {"context": ..., "question": ...}.  *)
(***************************************************************************)
PyStr(t) == [type |-> "str", value |-> t]
PyDict(context, question) ==
    [type |-> "dict", value |-> <<<<"context", context>>, <<"question", question>>>>]

\* RunnablePassthrough().invoke(input) returns its input
RunnablePassthrough(input) == input

\* {"context": RunnablePassthrough(), "question": RunnablePassthrough()}
\* runs both branches on the chain's whole input; the result fills the
\* template's {context} and {question}
PromptSlots(input) ==
    [context  |-> RunnablePassthrough(input),
     question |-> RunnablePassthrough(input)]

\* chain.invoke({"context": context, "question": query}): what the
\* template receives
ChainPrompt(context, query) == PromptSlots(PyDict(context, query))

\* the LLM's part: an answer, or an exception with its text
LLMOutcomes ==
    { [kind |-> "ok", text |-> <<"o", "k">>],
      [kind |-> "raise", text |-> <<"4", "2", "9">>] }

\* what an operation did on the way: the vector searches (arguments and
\* result), the inputs handed to the chain, the prompts the template
\* received, and the LLM's part ("not called", "ok", "raise")
NoTrace == [searches |-> <<>>, inputs |-> <<>>, prompts |-> <<>>,
            outcome |-> "not called"]

SuccessResultTopSource(answer, docs, query, context) ==
    [answer         |-> answer,
     context        |-> <<docs[1]>>,
     query          |-> query,
     context_length |-> Len(context)]

\* the dict generate_answer returns when the chain produced an answer
SuccessResult(answer, docs, query, context) ==
    [answer         |-> answer,
     context        |-> docs,
     query          |-> query,
     context_length |-> Len(context)]

FailureResultWithoutSources(text, docs) ==
    [answer  |-> S_failedAnswer \o text,
     context |-> <<>>,
     error   |-> text]

\* the dict generate_answer returns when the chain raised; text is str(e)
FailureResult(text, docs) ==
    [answer  |-> S_failedAnswer \o text,
     context |-> docs,
     error   |-> text]

\* generate_answer past the search: docs are the context documents in use
AnswerFrom(query, docs, o, searches) ==
    IF docs = <<>>
    THEN [ret   |-> [answer  |-> S_noDocsAnswer,
                     context |-> <<>>,
                     error   |-> S_noDocsError],
          trace |-> [NoTrace EXCEPT !.searches = searches]]
    ELSE LET context == _format_context(docs)
             trace   == [searches |-> searches,
                         inputs   |-> <<[context |-> context, question |-> query]>>,
                         prompts  |-> <<ChainPrompt(context, query)>>,
                         outcome  |-> o.kind]
         IN  IF o.kind = "ok"
             THEN [ret   |-> SuccessResult(o.text, docs, query, context),
                   trace |-> trace]
             ELSE [ret   |-> FailureResult(o.text, docs),
                   trace |-> trace]

SearchNByDefault(n_results) == TOP_K_RESULTS

\* search_documents: the (n_results, where) it hands to VectorStore.search
SearchN(n_results) == IF TruthyInt(n_results) THEN n_results[1] ELSE TOP_K_RESULTS

SearchWhereUnfiltered(content_type) == NoneV

SearchWhere(content_type) ==
    IF TruthyStr(content_type) THEN Some(<<"content_type", content_type[1]>>)
    ELSE NoneV

search_documents(query, n_results, content_type) ==
    search(query, SearchN(n_results), SearchWhere(content_type))

generate_answerSearchingFirst(query, context_documents, n_results) ==
    { [ret   |-> [answer  |-> S_noLLMAnswer,
                  context |-> found,
                  error   |-> S_noLLMError],
       trace |-> [NoTrace EXCEPT !.searches =
                     <<[n |-> SearchN(n_results), where |-> NoneV,
                        found |-> found]>>]]
      : found \in search_documents(query, n_results, NoneV) }

generate_answerAlwaysSearching(query, context_documents, n_results) ==
    IF ~llm
    THEN { [ret   |-> [answer  |-> S_noLLMAnswer,
                       context |-> <<>>,
                       error   |-> S_noLLMError],
            trace |-> NoTrace] }
    ELSE UNION { { AnswerFrom(query, found, o,
                              <<[n |-> SearchN(n_results), where |-> NoneV,
                                 found |-> found]>>)
                   : o \in LLMOutcomes }
                 : found \in search_documents(query, n_results, NoneV) }

\* generate_answer(query, context_documents, n_results): its outcomes,
\* [ret, trace], over what the search and the LLM can do
generate_answer(query, context_documents, n_results) ==
    IF ~llm
    THEN { [ret   |-> [answer  |-> S_noLLMAnswer,
                       context |-> <<>>,
                       error   |-> S_noLLMError],
            trace |-> NoTrace] }
    ELSE IF context_documents = NoneV
    THEN UNION { { AnswerFrom(query, found, o,
                              <<[n |-> SearchN(n_results), where |-> NoneV,
                                 found |-> found]>>)
                   : o \in IF found = <<>> THEN { CHOOSE x \in LLMOutcomes : TRUE }
                           ELSE LLMOutcomes }
                 : found \in search_documents(query, n_results, NoneV) }
    ELSE { AnswerFrom(query, context_documents[1], o, <<>>)
           : o \in IF context_documents[1] = <<>>
                   THEN { CHOOSE x \in LLMOutcomes : TRUE } ELSE LLMOutcomes }

\* the keyword parameters of generate_answer besides query
GenerateAnswerParams == {"context_documents", "n_results"}

KwArg(kwargs, name) == IF name \in DOMAIN kwargs THEN kwargs[name] ELSE NoneV

\* ask_question(question, **kwargs): [raised, ret, trace] outcomes
ask_question(question, kwargs) ==
    IF ~(DOMAIN kwargs \subseteq GenerateAnswerParams)
    THEN { [raised |-> "TypeError", ret |-> <<>>, trace |-> NoTrace] }
    ELSE { [raised |-> "none",
            ret    |-> Update(r.ret, [system_info |-> SystemInfo]),
            trace  |-> r.trace]
           : r \in generate_answer(question,
                                   KwArg(kwargs, "context_documents"),
                                   KwArg(kwargs, "n_results")) }

(***************************************************************************)
(* The corpus directory and the data loader                                *)
(***************************************************************************)
Sec(text, tables, images) == [text |-> text, tables |-> tables, images |-> images]

\* _create_sample_data: two papers of two text sections each.  Ids, titles
\* and texts are shortened; every section is one chunk, as in the source.
SamplePapers ==
    << PaperOf(<<"s", "1">>, << Sec(<<"m", "l">>, <<>>, <<>>),
                                Sec(<<"s", "l">>, <<>>, <<>>) >>),
       PaperOf(<<"s", "2">>, << Sec(<<"d", "l">>, <<>>, <<>>),
                                Sec(<<"c", "n", "n">>, <<>>, <<>>) >>) >>

SampleFiles == [name \in {"s1.json", "s2.json"} |->
                   IF name = "s1.json" THEN SamplePapers[1] ELSE SamplePapers[2]]

\* a paper a user keeps in the corpus, in two editions with the same id
UserPaper1 ==
    PaperOf(<<"p">>, << Sec(<<"a", "b">>,
                            << <<<<"t", "1">>, <<"x">>>> >>,
                            << <<<<"i", "1">>, <<"Q", "Q">>>> >>) >>)
UserPaper2 ==
    PaperOf(<<"p">>, << Sec(<<"c", "d">>, << <<<<"t", "1">>, <<"y">>>> >>, <<>>) >>)

\* a paper whose only section is blank: it yields no chunk
UserPaper0 ==
    PaperOf(<<"p">>, << Sec(<<" ">>, <<>>, <<>>) >>)

UserPapers == { UserPaper0, UserPaper1, UserPaper2 }

NoDir    == [exists |-> FALSE, papers |-> <<>>]
EmptyDir == [exists |-> TRUE, papers |-> <<>>]

\* _create_sample_data writes <id>.json into corpus_dir; open() fails when
\* the directory is missing
_create_sample_data(fs) ==
    IF ~fs.exists THEN [raised |-> "FileNotFoundError", files |-> fs]
    ELSE [raised |-> "none",
          files  |-> [exists |-> TRUE, papers |-> SampleFiles @@ fs.papers]]

\* download_dataset() without a URL
download_dataset(fs) == _create_sample_data(fs)

\* the orders in which glob("*.json") may list the files
RECURSIVE Orders(_)
Orders(S) ==
    IF S = {} THEN { <<>> }
    ELSE UNION { { <<x>> \o r : r \in Orders(S \ {x}) } : x \in S }

\* load_corpus: [raised, files, papers] outcomes
load_corpus(fs) ==
    LET made == IF ~fs.exists THEN _create_sample_data(fs)
                ELSE [raised |-> "none", files |-> fs]
    IN  IF made.raised # "none"
        THEN { [raised |-> made.raised, files |-> made.files, papers |-> <<>>] }
        ELSE { [raised |-> "none", files |-> made.files,
                papers |-> [i \in 1..Len(order) |-> made.files.papers[order[i]]]]
               : order \in Orders(DOMAIN made.files.papers) }

(***************************************************************************)
(* RAGSystem: state and operations                                         *)
(***************************************************************************)
MaxN == 2

Queries == { <<"a", "y">> }

ContentTypes == { S_text, S_table, S_image }

\* context documents a caller hands to generate_answer
GivenDocs ==
    << [content |-> <<"z">>, metadata |-> [title |-> <<"G">>]] >>

NoCall == [steps |-> <<>>, dbBefore |-> NoCollection, download |-> FALSE,
           corpus_files |-> 0]

Idle(op, args, raised, ret, trace) ==
    [op |-> op, args |-> args, raised |-> raised, ret |-> ret, trace |-> trace]

RagInit ==
    /\ files \in { EmptyDir,
                   [exists |-> TRUE, papers |-> [name \in {"p.json"} |-> UserPaper1]] }
    /\ db = EmptyCollection
    /\ handle = "current"
    /\ llm \in BOOLEAN
    /\ pc = "idle"
    /\ papers = <<>>
    /\ documents = <<>>
    /\ call = NoCall
    /\ last = Idle("none", <<>>, "none", <<>>, NoTrace)

\* the user edits the corpus between runs
WriteCorpusFile ==
    /\ pc = "idle"
    /\ files.exists
    /\ \E paper \in UserPapers :
           files' = [files EXCEPT !.papers = [name \in {"p.json"} |-> paper] @@ @]
    /\ UNCHANGED <<db, handle, llm, pc, papers, documents, call, last>>
    /\ UNCHANGED notRag

RemoveCorpusDir ==
    /\ pc = "idle"
    /\ files.exists
    /\ files' = NoDir
    /\ UNCHANGED <<db, handle, llm, pc, papers, documents, call, last>>
    /\ UNCHANGED notRag

\* what a finished initialize_system call leaves in last: its steps, the
\* collection and the number of corpus files it found, the papers it loaded
\* and the chunks it made
Returned(c, raised, ps, docs) ==
    Idle("initialize_system", [download_data |-> c.download], raised,
         [steps |-> c.steps, dbBefore |-> c.dbBefore,
          corpus_files |-> c.corpus_files,
          papers |-> Len(ps), documents |-> docs],
         NoTrace)

\* initialize_system, first step: download_dataset when asked, load_corpus,
\* return when the corpus is empty.  The step leaves the collection as
\* store says (the code does not touch it here); at is where the caller
\* stands.
LoadStep(at, download_data, store) ==
    /\ pc = at
    /\   LET got == IF download_data THEN download_dataset(files)
                    ELSE [raised |-> "none", files |-> files]
             begun == [steps |-> <<"load">>, dbBefore |-> db,
                       download |-> download_data,
                       corpus_files |-> Cardinality(DOMAIN files.papers)]
         IN  IF got.raised # "none"
             THEN /\ files' = got.files
                  /\ papers' = <<>>
                  /\ pc' = "idle"
                  /\ call' = NoCall
                  /\ last' = Returned(begun, got.raised, <<>>, <<>>)
             ELSE \E loaded \in load_corpus(got.files) :
                  /\ files' = loaded.files
                  /\ IF loaded.raised # "none" \/ loaded.papers = <<>>
                     THEN /\ pc' = "idle"
                          /\ papers' = <<>>
                          /\ call' = NoCall
                          /\ last' = Returned(begun, loaded.raised, <<>>, <<>>)
                     ELSE /\ pc' = "chunk"
                          /\ papers' = loaded.papers
                          /\ call' = begun
                          /\ last' = last
    /\ documents' = <<>>
    /\ db' = store
    /\ UNCHANGED <<handle, llm>>
    /\ UNCHANGED notRag

InitLoadClearing(download_data) == LoadStep("idle", download_data, EmptyCollection)

InitLoad(download_data) == LoadStep("idle", download_data, db)

\* second step: process_corpus, whose exception propagates; return when
\* there are no documents
InitChunk ==
    /\ pc = "chunk"
    /\ LET made  == process_corpus(papers)
           after == [call EXCEPT !.steps = Append(@, "chunk")]
       IN  IF made.raised # "none" \/ made.docs = <<>>
           THEN /\ pc' = "idle"
                /\ papers' = <<>>
                /\ documents' = <<>>
                /\ call' = NoCall
                /\ last' = Returned(after, made.raised, papers, <<>>)
           ELSE /\ pc' = "add"
                /\ papers' = papers
                /\ documents' = made.docs
                /\ call' = after
                /\ last' = last
    /\ UNCHANGED <<files, db, handle, llm>>
    /\ UNCHANGED notRag

\* third step: add_documents, whose exception propagates
InitAdd ==
    /\ pc = "add"
    /\ LET added == add_documents(documents)
       IN  /\ db' = [db EXCEPT !.entries = added.entries]
           /\ last' = Returned([call EXCEPT !.steps = Append(@, "add")],
                               added.raised, papers, documents)
    /\ call' = NoCall
    /\ pc' = "idle"
    /\ papers' = <<>>
    /\ documents' = <<>>
    /\ UNCHANGED <<files, handle, llm>>
    /\ UNCHANGED notRag

\* the arguments callers pass
NResultsArgs    == { NoneV, Some(0) } \cup { Some(n) : n \in 1..MaxN }
ContentTypeArgs == { NoneV, Some(<<>>) } \cup { Some(t) : t \in ContentTypes }
ContextArgs     == { NoneV, Some(<<>>), Some(GivenDocs) }

\* search_documents(query, n_results, content_type)
SearchDocuments ==
    /\ pc = "idle"
    /\ \E query \in Queries, n_results \in NResultsArgs,
          content_type \in ContentTypeArgs :
         \E found \in search_documents(query, n_results, content_type) :
            last' = Idle("search_documents",
                         [query |-> query, n_results |-> n_results,
                          content_type |-> content_type],
                         "none", found,
                         [NoTrace EXCEPT !.searches =
                             <<[n |-> SearchN(n_results),
                                where |-> SearchWhere(content_type),
                                found |-> found]>>])
    /\ UNCHANGED <<files, db, handle, llm, pc, papers, documents, call>>
    /\ UNCHANGED notRag

\* generate_answer(query, context_documents, n_results), as demo.py and
\* test_system.py call it
GenerateAnswer ==
    /\ pc = "idle"
    /\ \E query \in Queries, context_documents \in ContextArgs,
          n_results \in NResultsArgs :
         \E r \in generate_answer(query, context_documents, n_results) :
            last' = Idle("generate_answer",
                         [query |-> query, context_documents |-> context_documents,
                          n_results |-> n_results],
                         "none", r.ret, r.trace)
    /\ UNCHANGED <<files, db, handle, llm, pc, papers, documents, call>>
    /\ UNCHANGED notRag

\* app.py: ask_question(question, n_results=n_results, content_type=content_type)
\* with the slider's n_results and the select box's content_type (None for all)
AppAsk ==
    /\ pc = "idle"
    /\ \E question \in Queries, n \in 1..MaxN,
          content_type \in { NoneV } \cup { Some(t) : t \in ContentTypes } :
         LET kwargs == [n_results |-> Some(n), content_type |-> content_type]
         IN  \E r \in ask_question(question, kwargs) :
                last' = Idle("app_ask",
                             [query |-> question, kwargs |-> kwargs],
                             r.raised, r.ret, r.trace)
    /\ UNCHANGED <<files, db, handle, llm, pc, papers, documents, call>>
    /\ UNCHANGED notRag

\* main.py: ask_question(question)
MainAsk ==
    /\ pc = "idle"
    /\ \E question \in Queries :
         \E r \in ask_question(question, <<>>) :
            last' = Idle("main_ask", [query |-> question, kwargs |-> <<>>],
                         r.raised, r.ret, r.trace)
    /\ UNCHANGED <<files, db, handle, llm, pc, papers, documents, call>>
    /\ UNCHANGED notRag

delete_collectionFailing(d) == d

\* client.delete_collection raises when there is no such collection;
\* VectorStore.delete_collection logs the exception
delete_collection(d) == IF d.exists THEN NoCollection ELSE d

\* a Collection object is dead once its collection is deleted
HandleAfterDelete(d, h) == IF d.exists THEN "deleted" ELSE h

_get_or_create_collectionFresh(d) == EmptyCollection

\* get_collection, or create_collection when that raises
_get_or_create_collection(d) == IF d.exists THEN d ELSE EmptyCollection

reset_collectionKeepingHandle(d, h) ==
    [db     |-> _get_or_create_collection(delete_collection(d)),
     handle |-> HandleAfterDelete(d, h)]

\* reset_collection: delete, then self.collection = _get_or_create_collection()
reset_collection(d, h) ==
    [db     |-> _get_or_create_collection(delete_collection(d)),
     handle |-> "current"]

\* reset_system
ResetSystem ==
    /\ pc = "idle"
    /\ LET r == reset_collection(db, handle)
       IN  /\ db' = r.db
           /\ handle' = r.handle
    /\ last' = Idle("reset_system", <<>>, "none",
                     [existed |-> db.exists,
                      count_before |-> Cardinality(DOMAIN db.entries)],
                     NoTrace)
    /\ UNCHANGED <<files, llm, pc, papers, documents, call>>
    /\ UNCHANGED notRag

\* RAGSystem(config) constructed anew (a restart of the application):
\* OpenRAGDataLoader.__init__ makes the corpus directory, VectorStore.__init__
\* sets self.collection = _get_or_create_collection()
ConstructSystem ==
    /\ pc = "idle"
    /\ files' = IF files.exists THEN files ELSE EmptyDir
    /\ db' = _get_or_create_collection(db)
    /\ handle' = "current"
    /\ last' = Idle("RAGSystem", <<>>, "none", [dbBefore |-> db], NoTrace)
    /\ UNCHANGED <<llm, pc, papers, documents, call>>
    /\ UNCHANGED notRag

MaxBatch == 2

\* Documents a caller of VectorStore.add_documents makes: with a chunk_id,
\* with a chunk_id that looks like a fallback id, and without one; with
\* metadata values of every type
StoreDocs ==
    { Document(<<"u">>, [chunk_id |-> <<"a">>, title |-> <<"G">>,
                         section_id |-> 0,
                         pages |-> << <<"1">>, <<"2">> >>, doi |-> NoneV,
                         score |-> [tenths |-> 5], reviewed |-> TRUE]),
      Document(<<"v">>, [chunk_id |-> S_fallbackId \o <<"1">>, title |-> <<"G">>]),
      Document(<<"w">>, [title |-> <<"G">>, pages |-> <<>>]),
      Document(<<"y">>, [title |-> <<"H">>, doi |-> NoneV]) }

StoreBatches == SeqsUpTo(StoreDocs, MaxBatch)

\* vector_store.add_documents(documents)
AddDocuments ==
    /\ pc = "idle"
    /\ \E docs \in StoreBatches :
         LET added == add_documents(docs)
         IN  /\ db' = [db EXCEPT !.entries = added.entries]
             /\ last' = Idle("add_documents", [documents |-> docs],
                              added.raised,
                              [dbBefore |-> db, ids |-> SubmittedIds(docs)],
                              NoTrace)
    /\ UNCHANGED <<files, handle, llm, pc, papers, documents, call>>
    /\ UNCHANGED notRag

AppFindsNoDataAlways(collection_info) == TRUE

\* app.py: collection_info.get('document_count', 0) == 0, where
\* collection_info is {} when count() raised
AppFindsNoData(collection_info) ==
    (IF collection_info = NoneV THEN 0 ELSE collection_info[1]) = 0

\* app.py initialize_rag_system, up to its decision: RAGSystem(config) as in
\* ConstructSystem, then get_collection_info; "start" is the position just
\* before rag_system.initialize_system()
AppStart ==
    /\ pc = "idle"
    /\ files' = IF files.exists THEN files ELSE EmptyDir
    /\ db' = _get_or_create_collection(db)
    /\ handle' = "current"
    /\ pc' = IF AppFindsNoData(document_count') THEN "start" ELSE "idle"
    /\ last' = Idle("initialize_rag_system", <<>>, "none",
                     [dbBefore |-> db, document_count |-> document_count'],
                     NoTrace)
    /\ UNCHANGED <<llm, papers, documents, call>>
    /\ UNCHANGED notRag

\* app.py: rag_system.initialize_system()
AppInitLoad == LoadStep("start", FALSE, db)

\* VectorStore.delete_collection, called on its own
DeleteCollection ==
    /\ pc = "idle"
    /\ db' = delete_collection(db)
    /\ handle' = HandleAfterDelete(db, handle)
    /\ last' = Idle("delete_collection", <<>>, "none", <<>>, NoTrace)
    /\ UNCHANGED <<files, llm, pc, papers, documents, call>>
    /\ UNCHANGED notRag

(***************************************************************************)
(* DocumentProcessor driver                                                *)
(***************************************************************************)
ProcInit ==
    /\ procPaper \in ProcPapers
    /\ procOut = Pending
    /\ procCorpus = <<>>
    /\ corpusOut = Pending

ProcessPaper ==
    /\ procOut = Pending
    /\ procOut' = process_paper(procPaper)
    /\ UNCHANGED <<procPaper, procCorpus, corpusOut>>
    /\ UNCHANGED notProc

ProcIdle ==
    /\ procPaper = PaperOf(<<"p">>, <<>>)
    /\ procOut = Pending
    /\ procCorpus = <<>>
    /\ corpusOut = Pending

\* the ids of a paper and of one of its tables that fit together:
\* "p_section_0_table_x" and "x_section_0_chunk_0"
LongPaperId == <<"p">> \o S_section \o <<"0">> \o S_tableId \o <<"x">>
LongTableId == <<"x">> \o S_section \o <<"0">> \o S_chunk \o <<"0">>

\* the papers of a corpus: well-formed ones, one without "title", one whose
\* second section has no "images", and a file that holds no JSON object
CorpusPapers ==
    { PaperOf(<<"p">>, << Sec(<<"a", "b">>, << <<<<"t", "1">>, <<"x">>>> >>, <<>>) >>),
      PaperOf(<<"q">>, << Sec(<<"k", "l", "m", "n", "o", "p", "q">>, <<>>,
                              << <<<<"i", "1">>, <<"Q", "Q">>>> >>) >>),
      PaperOf(<<"p">>, << Sec(<<"a", "b">>, << <<LongTableId, <<"w">>>> >>, <<>>) >>),
      PaperOf(LongPaperId, << Sec(<<"c", "d">>, <<>>, <<>>) >>),
      NotADict }
    \cup BrokenPapers

MaxPapers == 2

ProcCorpora == SeqsUpTo(CorpusPapers, MaxPapers)

CorpusInit ==
    /\ procCorpus \in ProcCorpora
    /\ corpusOut = Pending
    /\ procPaper = PaperOf(<<"p">>, <<>>)
    /\ procOut = Pending

ProcessCorpus ==
    /\ corpusOut = Pending
    /\ corpusOut' = process_corpus(procCorpus)
    /\ UNCHANGED <<procPaper, procOut, procCorpus>>
    /\ UNCHANGED notProc

(***************************************************************************)
(* RAGAgent (core/rag_agent.py) over core Config                           *)
(***************************************************************************)
TOP_K == 4

\* core Config: class attributes read from the environment; env says
\* whether OPENAI_API_KEY is set
Config(env) ==
    [EMBEDDING_MODEL |-> "text-embedding-ada-002",
     LLM_MODEL       |-> "gpt-3.5-turbo",
     OPENAI_API_KEY  |-> IF env THEN Some("sk") ELSE NoneV,
     INDEX_PATH      |-> "./data/index",
     CORPUS_PATH     |-> "./data/corpus",
     TOP_K           |-> TOP_K]

\* what a caller hands to RAGAgent(config): None, or a Config object that
\* was given reranker attributes
RerankerAttributes ==
    { [RERANKER_TYPE |-> "bge", K_RERANK_TOP |-> MaxN],
      [RERANKER_TYPE |-> "bge", K_RERANK_TOP |-> 0],
      [RERANKER_TYPE |-> "bge"],
      [RERANKER_TYPE |-> "none", K_RERANK_TOP |-> MaxN],
      [RERANKER_TYPE |-> "openai"] }

AgentConfigs(env) ==
    { NoneV } \cup { Some(Update(Config(env), extra)) : extra \in RerankerAttributes }

\* the documents a corpus directory can hold; an empty file gives no node
AgentDocs == { <<"m", "l">>, <<"d", "b">>, <<>> }

NoCorpus == [exists |-> FALSE, docs |-> {}]

\* SimpleDirectoryReader(CORPUS_PATH).load_data(): a missing directory and
\* a directory without files raise ValueError
ReadCorpus(corpus) ==
    IF ~corpus.exists \/ corpus.docs = {}
    THEN [raised |-> "ValueError", docs |-> {}]
    ELSE [raised |-> "none", docs |-> corpus.docs]

_load_or_build_indexAlwaysBuilding(corpus, store) ==
    LET read == ReadCorpus(corpus)
    IN  IF read.raised # "none"
        THEN [raised |-> read.raised, index |-> {}, store |-> store]
        ELSE [raised |-> "none", index |-> read.docs, store |-> Some(read.docs)]

\* _load_or_build_index: the persisted index when INDEX_PATH exists, else
\* an index built from the corpus and persisted
_load_or_build_index(corpus, store) ==
    IF store # NoneV
    THEN [raised |-> "none", index |-> store[1], store |-> store]
    ELSE LET read == ReadCorpus(corpus)
         IN  IF read.raised # "none"
             THEN [raised |-> read.raised, index |-> {}, store |-> store]
             ELSE [raised |-> "none", index |-> read.docs,
                   store |-> Some(read.docs)]

\* _build_reranker: reading an attribute the config object lacks raises
\* AttributeError
_build_reranker(config) ==
    IF "RERANKER_TYPE" \notin DOMAIN config
    THEN [raised |-> "AttributeError", reranker |-> NoneV]
    ELSE IF config.RERANKER_TYPE = "bge"
         THEN IF "K_RERANK_TOP" \notin DOMAIN config
              THEN [raised |-> "AttributeError", reranker |-> NoneV]
              ELSE [raised |-> "none",
                    reranker |-> Some([kind  |-> "BgeRerank",
                                       top_n |-> config.K_RERANK_TOP])]
         ELSE [raised |-> "none", reranker |-> NoneV]

\* RAGAgent.__init__(config): ChatOpenAI (which refuses a missing API key),
\* the index, the reranker, then the tools and the executor.  An exception
\* leaves no agent object, but an index persisted before it stays on disk.
RAGAgent(c, env, corpus, store) ==
    LET config == IF c = NoneV THEN Config(env) ELSE c[1]
    IN  IF config.OPENAI_API_KEY = NoneV
        THEN [raised |-> "OpenAIError", agent |-> NoneV, store |-> store]
        ELSE LET built == _load_or_build_index(corpus, store)
             IN  IF built.raised # "none"
                 THEN [raised |-> built.raised, agent |-> NoneV, store |-> store]
                 ELSE LET rr == _build_reranker(config)
                      IN  IF rr.raised # "none"
                          THEN [raised |-> rr.raised, agent |-> NoneV,
                                store |-> built.store]
                          ELSE [raised |-> "none",
                                agent  |-> Some([config   |-> config,
                                                 index    |-> built.index,
                                                 reranker |-> rr.reranker]),
                                store  |-> built.store]

NoAgentCall ==
    [op |-> "none", config |-> NoneV, raised |-> "none",
     key |-> FALSE, readable |-> FALSE]

AgentIdle ==
    /\ agentEnv = FALSE
    /\ agentCorpus = NoCorpus
    /\ indexStore = NoneV
    /\ agent = NoneV
    /\ agentLast = NoAgentCall

AgentInit ==
    /\ agentEnv \in BOOLEAN
    /\ agentCorpus = NoCorpus
    /\ indexStore = NoneV
    /\ agent = NoneV
    /\ agentLast = NoAgentCall

\* the user puts a document into CORPUS_PATH, or takes one out
AgentWriteDoc ==
    /\ \E d \in AgentDocs :
         /\ d \notin agentCorpus.docs
         /\ agentCorpus' = [exists |-> TRUE, docs |-> agentCorpus.docs \cup {d}]
    /\ UNCHANGED <<agentEnv, indexStore, agent, agentLast>>
    /\ UNCHANGED notAgent

AgentRemoveDoc ==
    /\ \E d \in agentCorpus.docs :
         agentCorpus' = [agentCorpus EXCEPT !.docs = @ \ {d}]
    /\ UNCHANGED <<agentEnv, indexStore, agent, agentLast>>
    /\ UNCHANGED notAgent

\* the user deletes the directory at INDEX_PATH
AgentRemoveIndex ==
    /\ indexStore # NoneV
    /\ indexStore' = NoneV
    /\ UNCHANGED <<agentEnv, agentCorpus, agent, agentLast>>
    /\ UNCHANGED notAgent

\* agent = RAGAgent(config); a constructor that raises binds nothing
Construct ==
    /\ \E c \in AgentConfigs(agentEnv) :
         LET made == RAGAgent(c, agentEnv, agentCorpus, indexStore)
         IN  /\ indexStore' = made.store
             /\ agent' = IF made.raised = "none" THEN made.agent ELSE agent
             /\ agentLast' = [op |-> "RAGAgent", config |-> c,
                              raised |-> made.raised,
                              key |-> agentEnv,
                              readable |-> \/ indexStore # NoneV
                                           \/ ReadCorpus(agentCorpus).raised = "none"]
    /\ UNCHANGED <<agentEnv, agentCorpus>>
    /\ UNCHANGED notAgent

\* what can go wrong past the reader in rebuild_index: nothing, the
\* embedding call of from_documents, persist before it wrote anything,
\* persist after it wrote the index
RebuildFailures == { "none", "build", "persist early", "persist late" }

\* rebuild_index over the index the agent holds: [raised, index, store].
\* self.index is assigned in the last statement.
rebuild_index(index, corpus, store, failure) ==
    LET read == ReadCorpus(corpus)
    IN  IF read.raised # "none"
        THEN [raised |-> read.raised, index |-> index, store |-> store]
        ELSE IF failure = "build"
        THEN [raised |-> "APIError", index |-> index, store |-> store]
        ELSE IF failure = "persist early"
        THEN [raised |-> "OSError", index |-> index, store |-> store]
        ELSE IF failure = "persist late"
        THEN [raised |-> "OSError", index |-> index, store |-> Some(read.docs)]
        ELSE [raised |-> "none", index |-> read.docs, store |-> Some(read.docs)]

\* agent.rebuild_index()
RebuildIndex ==
    /\ agent # NoneV
    /\ \E failure \in RebuildFailures :
         LET done == rebuild_index(agent[1].index, agentCorpus, indexStore, failure)
         IN  /\ indexStore' = done.store
             /\ agent' = Some([agent[1] EXCEPT !.index = done.index])
             /\ agentLast' = [op |-> "rebuild_index", config |-> NoneV,
                              raised |-> done.raised,
                              key |-> agentEnv,
                              readable |-> ReadCorpus(agentCorpus).raised = "none"]
    /\ UNCHANGED <<agentEnv, agentCorpus>>
    /\ UNCHANGED notAgent

\* "No documents found." (core/rag_agent.py:73)
S_noDocuments ==
    <<"N", "o", " ", "d", "o", "c", "u", "m", "e", "n", "t", "s", " ", "f",
      "o", "u", "n", "d", ".">>

\* the lists of n distinct members of S, in any order
RECURSIVE Picks(_, _)
Picks(S, n) ==
    IF n = 0 \/ S = {} THEN { <<>> }
    ELSE UNION { { <<x>> \o r : r \in Picks(S \ {x}, n - 1) } : x \in S }

\* retriever.retrieve(query): the similarity_top_k nearest nodes of the
\* index, nearest first; the embedding decides the order
Retrieve(index, similarity_top_k) ==
    Picks({ d \in index : d # <<>> }, similarity_top_k)

\* BgeRerank(top_n).postprocess_nodes(nodes): the top_n best of nodes, best
\* first; the reranking model decides which
postprocess_nodes(reranker, nodes) == Picks(Range(nodes), reranker.top_n)

_context_searchWithoutFallback(a, query, top_k) ==
    UNION {
      { [ret   |-> IF reranked = <<>> THEN S_noDocuments
                   ELSE join(<<"\n">>, reranked),
         trace |-> [top_k    |-> IF TruthyInt(top_k) THEN top_k[1] ELSE a.config.TOP_K,
                    nodes    |-> nodes,
                    reranker |-> IF a.reranker # NoneV /\ nodes # <<>>
                                 THEN << [given |-> nodes, returned |-> reranked] >>
                                 ELSE <<>>]]
        : reranked \in IF a.reranker # NoneV /\ nodes # <<>>
                       THEN postprocess_nodes(a.reranker[1], nodes)
                       ELSE { nodes } }
      : nodes \in Retrieve(a.index,
                           IF TruthyInt(top_k) THEN top_k[1] ELSE a.config.TOP_K) }

\* _context_search(query, top_k) of the agent a: its outcomes [ret, trace];
\* the trace holds the top_k asked of the retriever, the nodes it gave and
\* the calls of the reranker
_context_search(a, query, top_k) ==
    LET k == IF TruthyInt(top_k) THEN top_k[1] ELSE a.config.TOP_K
    IN  UNION {
          IF a.reranker # NoneV /\ nodes # <<>>
          THEN { LET final == IF reranked # <<>> THEN reranked ELSE nodes
                 IN  [ret   |-> IF final = <<>> THEN S_noDocuments
                                ELSE join(<<"\n">>, final),
                      trace |-> [top_k    |-> k,
                                 nodes    |-> nodes,
                                 reranker |-> << [given    |-> nodes,
                                                  returned |-> reranked] >>]]
                 : reranked \in postprocess_nodes(a.reranker[1], nodes) }
          ELSE { [ret   |-> IF nodes = <<>> THEN S_noDocuments
                            ELSE join(<<"\n">>, nodes),
                  trace |-> [top_k |-> k, nodes |-> nodes, reranker |-> <<>>]] }
          : nodes \in Retrieve(a.index, k) }

\* the rag_search tool: agent._context_search(query), and the call with a
\* top_k
ContextSearch ==
    /\ agent # NoneV
    /\ \E query \in Queries, top_k \in NResultsArgs :
         \E r \in _context_search(agent[1], query, top_k) :
            agentLast' = [op |-> "_context_search", config |-> NoneV,
                          raised |-> "none", key |-> agentEnv,
                          readable |-> TRUE,
                          args |-> [query |-> query, top_k |-> top_k],
                          ret |-> r.ret, trace |-> r.trace]
    /\ UNCHANGED <<agentEnv, agentCorpus, indexStore, agent>>
    /\ UNCHANGED notAgent

(***************************************************************************)
(* Specifications                                                          *)
(***************************************************************************)
Init == RagInit /\ ProcIdle /\ AgentIdle

\* initialize_system() as every caller of the repository calls it
InitLoadDefault == InitLoad(FALSE)

\* question answering over a corpus the user edits and re-indexes
Next ==
    \/ WriteCorpusFile
    \/ InitLoadDefault
    \/ InitChunk
    \/ InitAdd
    \/ SearchDocuments
    \/ GenerateAnswer
    \/ AppAsk
    \/ MainAsk
    \/ ResetSystem
    \/ DeleteCollection

Spec == Init /\ [][Next]_vars

\* initialize_system(download_data) with either argument
InitLoadAny == \E download_data \in BOOLEAN : InitLoad(download_data)

\* the life cycle of the index: corpus edits, indexing, reset, deletion
NextIndex ==
    \/ WriteCorpusFile
    \/ RemoveCorpusDir
    \/ InitLoadAny
    \/ InitChunk
    \/ InitAdd
    \/ ResetSystem
    \/ DeleteCollection
    \/ ConstructSystem

SpecIndex == Init /\ [][NextIndex]_vars

\* corpora that stay as they are while the system runs: no file, one
\* paper (without chunks, with several), the sample papers, both
FixedCorpora ==
    { EmptyDir, [exists |-> TRUE, papers |-> SampleFiles],
      [exists |-> TRUE,
       papers |-> [name \in {"p.json"} |-> UserPaper1] @@ SampleFiles] }
    \cup { [exists |-> TRUE, papers |-> [name \in {"p.json"} |-> paper]]
           : paper \in UserPapers }

\* a newly constructed RAGSystem over one of these corpora
InitFixed ==
    /\ files \in FixedCorpora
    /\ db = EmptyCollection
    /\ handle = "current"
    /\ llm \in BOOLEAN
    /\ pc = "idle"
    /\ papers = <<>>
    /\ documents = <<>>
    /\ call = NoCall
    /\ last = Idle("none", <<>>, "none", <<>>, NoTrace)
    /\ ProcIdle
    /\ AgentIdle

\* indexing and resetting over a corpus nobody edits
NextFixed ==
    \/ InitLoadDefault
    \/ InitChunk
    \/ InitAdd
    \/ ResetSystem

SpecFixed == InitFixed /\ [][NextFixed]_vars

\* the vector store under a caller of its own
NextStore ==
    \/ AddDocuments
    \/ ResetSystem
    \/ DeleteCollection

SpecStore == Init /\ [][NextStore]_vars

\* the web app: start-ups over a corpus the user edits and a collection
\* that persists between them
NextApp ==
    \/ WriteCorpusFile
    \/ RemoveCorpusDir
    \/ AppStart
    \/ AppInitLoad
    \/ InitChunk
    \/ InitAdd
    \/ DeleteCollection

SpecApp == Init /\ [][NextApp]_vars

\* the RAG agent: its corpus and index directories, construction, rebuild
InitAgent ==
    /\ AgentInit
    /\ ProcIdle
    /\ files = EmptyDir /\ db = EmptyCollection /\ handle = "current"
    /\ llm = FALSE /\ pc = "idle" /\ papers = <<>> /\ documents = <<>>
    /\ call = NoCall
    /\ last = Idle("none", <<>>, "none", <<>>, NoTrace)

NextAgent ==
    \/ AgentWriteDoc
    \/ AgentRemoveDoc
    \/ AgentRemoveIndex
    \/ Construct
    \/ RebuildIndex
    \/ ContextSearch

SpecAgent == InitAgent /\ [][NextAgent]_vars

\* the DocumentProcessor alone, over the papers of ProcPapers
InitProc ==
    /\ ProcInit
    /\ files = EmptyDir /\ db = EmptyCollection /\ handle = "current"
    /\ llm = FALSE /\ pc = "idle" /\ papers = <<>> /\ documents = <<>>
    /\ call = NoCall /\ last = Idle("none", <<>>, "none", <<>>, NoTrace)
    /\ AgentIdle

NextProc == ProcessPaper

\* process_corpus over the corpora of ProcCorpora
InitCorpus ==
    /\ CorpusInit
    /\ files = EmptyDir /\ db = EmptyCollection /\ handle = "current"
    /\ llm = FALSE /\ pc = "idle" /\ papers = <<>> /\ documents = <<>>
    /\ call = NoCall /\ last = Idle("none", <<>>, "none", <<>>, NoTrace)
    /\ AgentIdle

NextCorpus == ProcessCorpus

SpecCorpus == InitCorpus /\ [][NextCorpus]_vars

SpecProc == InitProc /\ [][NextProc]_vars

(***************************************************************************)
(* Properties                                                              *)
(***************************************************************************)
Min2(a, b) == IF a <= b THEN a ELSE b

IsPrefix(p, t) == Len(p) <= Len(t) /\ SubSeq(t, 1, Len(p)) = p

\* C1: whenever generate_answer calls the LLM, the template's {context}
\* slot holds exactly the string _format_context made of the chunks in use,
\* and its {question} slot holds exactly the query string; neither slot
\* holds the other value or the whole input mapping.
C1_PromptSlotsHoldContextAndQuestion ==
    \A i \in 1..Len(last.trace.prompts) :
        LET slots == last.trace.prompts[i]
        IN  /\ slots.context.type = "str"
            /\ slots.context.value = _format_context(last.ret.context)
            /\ slots.question.type = "str"
            /\ slots.question.value = last.args.query

\* the ids add_documents gave the chunks of the last indexing run
AddedIds ==
    { DocId(last.ret.documents[k], k) : k \in 1..Len(last.ret.documents) }

\* C2: add_documents upserts.  When initialize_system reaches its insertion
\* step with a chunk whose chunk_id the collection already holds, the call
\* succeeds, and afterwards every chunk id of the run is stored exactly once
\* with the text and metadata of this, the latest, run; the document count
\* is the number of distinct chunk ids.
C2_AddDocumentsUpserts ==
    ( /\ last.op = "initialize_system"
      /\ last.ret.steps = <<"load", "chunk", "add">>
      /\ AddedIds \cap DOMAIN last.ret.dbBefore.entries # {} )
    => /\ last.raised = "none"
       /\ \A k \in 1..Len(last.ret.documents) :
            LET doc == last.ret.documents[k]
                id  == DocId(doc, k)
            IN  /\ id \in DOMAIN db.entries
                /\ db.entries[id].text = doc.page_content
                /\ db.entries[id].metadata = doc.metadata
       /\ Cardinality(DOMAIN db.entries)
            = Cardinality(AddedIds \cup DOMAIN last.ret.dbBefore.entries)

\* C3: ask_question, called as the web UI calls it (n_results and
\* content_type keywords), returns a result without raising, and when a
\* content_type is given every chunk of the result's context has it.
C3_AskQuestionTakesUIKeywords ==
    last.op = "app_ask" =>
        /\ last.raised = "none"
        /\ last.args.kwargs.content_type # NoneV =>
             \A i \in 1..Len(last.ret.context) :
                last.ret.context[i].metadata.content_type
                    = last.args.kwargs.content_type[1]

\* C4: RAGAgent() with the default core Config, an API key and a readable
\* index or corpus completes without raising; a constructed agent's
\* reranker is a BGE reranker when the configured type is "bge" and None
\* for every other configuration, the default one included.
C4_DefaultAgentConstructs ==
    agentLast.op = "RAGAgent" =>
        /\ (agentLast.config = NoneV /\ agentLast.key /\ agentLast.readable)
               => /\ agentLast.raised = "none"
                  /\ agent # NoneV
                  /\ agent[1].reranker = NoneV
        /\ agentLast.raised = "none" =>
               /\ agent # NoneV
               /\ LET cfg == agent[1].config
                  IN  agent[1].reranker =
                          IF "RERANKER_TYPE" \in DOMAIN cfg
                             /\ cfg.RERANKER_TYPE = "bge"
                          THEN Some([kind  |-> "BgeRerank",
                                     top_n |-> cfg.K_RERANK_TOP])
                          ELSE NoneV

\* the number of results the last search_documents call asked for
AskedN ==
    IF last.args.n_results = NoneV \/ last.args.n_results[1] = 0
    THEN TOP_K_RESULTS ELSE last.args.n_results[1]

\* C5: every result of search_documents(query, content_type = t), t one of
\* text, table, image, has metadata content_type t (and the nearest chunks
\* of that type are all there); with content_type None or empty no filter
\* is handed to the store and chunks of every type are eligible: the
\* result has as many chunks as were asked for, or the whole collection.
C5_ContentTypeFilter ==
    last.op = "search_documents" =>
        LET ct    == last.args.content_type
            found == last.ret
        IN  /\ (ct # NoneV /\ ct[1] \in ContentTypes) =>
                 /\ \A i \in 1..Len(found) :
                        found[i].metadata.content_type = ct[1]
                 /\ HandleLive =>
                        Len(found) =
                            Min2(AskedN,
                                 Cardinality({ id \in DOMAIN db.entries :
                                     db.entries[id].metadata.content_type = ct[1] }))
            /\ (ct = NoneV \/ ct = Some(<<>>)) =>
                 /\ last.trace.searches[1].where = NoneV
                 /\ HandleLive =>
                        Len(found) = Min2(AskedN, Cardinality(DOMAIN db.entries))
            /\ \A i, j \in 1..Len(found) : i # j => found[i].id # found[j].id

C5_Witness ==
    /\ last.op = "search_documents"
    /\ last.args.content_type = Some(S_table)
    /\ Len(last.ret) >= 1
    /\ \E id \in DOMAIN db.entries :
           db.entries[id].metadata.content_type = S_text

\* the chunks the last generate_answer call worked with: the ones it was
\* given, else the ones its search returned
ChunksInUse ==
    IF last.args.context_documents # NoneV THEN last.args.context_documents[1]
    ELSE IF last.trace.searches # <<>> THEN last.trace.searches[1].found
    ELSE <<>>

\* C6: generate_answer returns the answer plus the source list.  When the
\* LLM answered, the result has exactly answer, context, query and
\* context_length, its context is the list of chunks that was formatted
\* into the prompt, in retrieval order, and context_length is the length of
\* that formatted string.  The result has an "error" key exactly when no
\* LLM answer was produced: no LLM configured, no documents, or the LLM
\* call raised.
C6_AnswerPlusSources ==
    last.op = "generate_answer" =>
        LET r == last.ret
            t == last.trace
        IN  /\ ("error" \in DOMAIN r) <=> (t.outcome # "ok")
            /\ (t.outcome # "ok")
                 <=> (~llm \/ ChunksInUse = <<>> \/ t.outcome = "raise")
            /\ t.outcome = "ok" =>
                 /\ DOMAIN r = {"answer", "context", "query", "context_length"}
                 /\ r.context = ChunksInUse
                 /\ t.inputs[1].context = _format_context(r.context)
                 /\ r.context_length = Len(t.inputs[1].context)
                 /\ r.query = last.args.query
                 /\ \E o \in LLMOutcomes : o.kind = "ok" /\ r.answer = o.text

C6_Witness ==
    /\ last.op = "generate_answer"
    /\ last.trace.outcome = "ok"
    /\ last.args.context_documents = NoneV
    /\ Len(last.ret.context) >= 2

\* C7: initialize_system loads, then chunks, then inserts.  While a call is
\* under way the collection is as the call found it, so the one write is
\* the insertion, after both earlier steps; a call that loaded no paper or
\* made no chunk ends before the insertion and leaves the store unchanged.
C7_LoadChunkInsert ==
    /\ pc = "chunk" =>
         /\ call.steps = <<"load">>
         /\ papers # <<>>
         /\ db = call.dbBefore
    /\ pc = "add" =>
         /\ call.steps = <<"load", "chunk">>
         /\ documents # <<>>
         /\ db = call.dbBefore
    /\ last.op = "initialize_system" =>
         /\ last.ret.steps \in { <<"load">>, <<"load", "chunk">>,
                                 <<"load", "chunk", "add">> }
         /\ (last.ret.papers = 0) => last.ret.steps = <<"load">>
         /\ (last.ret.papers > 0 /\ last.ret.documents = <<>>)
                => last.ret.steps = <<"load", "chunk">>
         /\ last.ret.steps # <<"load", "chunk", "add">>
                => db = last.ret.dbBefore

C7_Witness ==
    /\ last.op = "initialize_system"
    /\ last.ret.steps = <<"load", "chunk">>
    /\ DOMAIN last.ret.dbBefore.entries # {}
    /\ db = last.ret.dbBefore

ChunkKeys == {"paper_id", "title", "authors", "section_id", "content_type",
              "chunk_id"}
PaperLevelKeys == {"paper_id", "title", "authors", "categories", "abstract",
                   "published", "updated"}

\* C9: every Document of process_paper has metadata with paper_id, title,
\* authors (one string), section_id, content_type and chunk_id; section_id
\* is the zero-based index of the section the chunk was made from,
\* content_type is text, table or image, and the paper-level fields are the
\* paper's, hence the same in all its chunks.
C9_FlatMetadata ==
    procOut.raised = "none" =>
        \A k \in 1..Len(procOut.docs) :
            LET d == procOut.docs[k]
                m == d.metadata
            IN  /\ ChunkKeys \subseteq DOMAIN m
                /\ m.paper_id = procPaper.id
                /\ m.title = procPaper.title
                /\ m.authors = <<"A", ",", " ", "B">>
                /\ \A l \in 1..Len(procOut.docs) : \A key \in PaperLevelKeys :
                       procOut.docs[l].metadata[key] = m[key]
                /\ m.content_type \in ContentTypes
                /\ m.section_id \in 0..(Len(procPaper.sections) - 1)
                /\ IsPrefix(m.paper_id \o S_section \o str(m.section_id), m.chunk_id)
                /\ LET section == procPaper.sections[m.section_id + 1]
                   IN  \/ /\ m.content_type = S_text
                          /\ Contains(section.text, d.page_content)
                       \/ /\ m.content_type = S_table
                          /\ \E j \in 1..Len(section.tables) :
                                 section.tables[j][1] = m.table_id
                       \/ /\ m.content_type = S_image
                          /\ \E j \in 1..Len(section.images) :
                                 section.images[j][1] = m.image_id

C9_Witness ==
    /\ procOut.raised = "none"
    /\ \E k \in 1..Len(procOut.docs) :
           /\ procOut.docs[k].metadata.section_id = 1
           /\ procOut.docs[k].metadata.content_type = S_image
    /\ \E k \in 1..Len(procOut.docs) :
           /\ procOut.docs[k].metadata.content_type = S_text
           /\ procOut.docs[k].metadata.chunk_index >= 1
    /\ \E k \in 1..Len(procOut.docs) :
           procOut.docs[k].metadata.content_type = S_table

\* the items of a tables/images dict whose content is not blank
NonBlank(items) == SelectSeq(items, LAMBDA it : strip(it[2]) # <<>>)

\* the chunks of one content type made from the section of index section_id
ChunksOf(section_id, content_type) ==
    SelectSeq(procOut.docs,
              LAMBDA d : /\ d.metadata.section_id = section_id
                         /\ d.metadata.content_type = content_type)

\* C10: each table and each image of a section whose content is not blank
\* becomes exactly one Document, in the dict's order, however long it is,
\* and blank ones become none.  A table chunk's text is the header with the
\* table id followed by the whole table content; an image chunk's text is
\* the header with the image id and the fixed placeholder, without the
\* image data, which is kept in metadata image_base64 only.
C10_TablesAndImagesAreSingleChunks ==
    procOut.raised = "none" =>
        \A i \in 1..Len(procPaper.sections) :
            LET tables == NonBlank(procPaper.sections[i].tables)
                images == NonBlank(procPaper.sections[i].images)
                tdocs  == ChunksOf(i - 1, S_table)
                idocs  == ChunksOf(i - 1, S_image)
            IN  /\ Len(tdocs) = Len(tables)
                /\ \A k \in 1..Len(tdocs) :
                       /\ tdocs[k].metadata.table_id = tables[k][1]
                       /\ tdocs[k].page_content =
                              S_tableHeader \o tables[k][1] \o <<":", "\n">>
                              \o tables[k][2]
                /\ Len(idocs) = Len(images)
                /\ \A k \in 1..Len(idocs) :
                       /\ idocs[k].metadata.image_id = images[k][1]
                       /\ idocs[k].page_content =
                              S_imageHeader \o images[k][1] \o S_imagePlaceholder
                       /\ ~Contains(idocs[k].page_content, images[k][2])
                       /\ idocs[k].metadata.image_base64 = images[k][2]
                       /\ \A key \in DOMAIN idocs[k].metadata
                                  \ {"image_base64", "section_id"} :
                              idocs[k].metadata[key] # images[k][2]

C10_Witness ==
    /\ procOut.raised = "none"
    /\ \E k \in 1..Len(procOut.docs) :
           /\ procOut.docs[k].metadata.content_type = S_table
           /\ Len(procOut.docs[k].page_content) > 2 * ChunkSize + Len(S_tableHeader)
    /\ \E k \in 1..Len(procOut.docs) :
           procOut.docs[k].metadata.content_type = S_image
    /\ \E i \in 1..Len(procPaper.sections) :
           \E j \in 1..Len(procPaper.sections[i].images) :
               strip(procPaper.sections[i].images[j][2]) = <<>>

\* C11: every text chunk of a section is a bounded slice of the section's
\* text: it occurs in that text, it is at most chunk_size long and it is
\* not blank; a section whose text is empty or blank yields no text chunk.
C11_TextChunksAreBoundedSlices ==
    procOut.raised = "none" =>
        /\ \A k \in 1..Len(procOut.docs) :
             LET d == procOut.docs[k]
             IN  d.metadata.content_type = S_text =>
                    /\ Len(d.page_content) <= ChunkSize
                    /\ strip(d.page_content) # <<>>
                    /\ Contains(procPaper.sections[d.metadata.section_id + 1].text,
                                d.page_content)
        /\ \A i \in 1..Len(procPaper.sections) :
             strip(procPaper.sections[i].text) = <<>>
                 => ChunksOf(i - 1, S_text) = <<>>

C11_Witness ==
    /\ procOut.raised = "none"
    /\ \E i \in 1..Len(procPaper.sections) :
           /\ Len(procPaper.sections[i].text) > ChunkSize
           /\ Len(ChunksOf(i - 1, S_text)) >= 2
           /\ \E k \in 1..Len(ChunksOf(i - 1, S_text)) :
                  Len(ChunksOf(i - 1, S_text)[k].page_content) = ChunkSize
    /\ \E i \in 1..Len(procPaper.sections) :
           /\ procPaper.sections[i].text # <<>>
           /\ strip(procPaper.sections[i].text) = <<>>

\* C12: constructing the VectorStore (with its RAGSystem) fetches the named
\* collection when it exists and leaves every stored chunk as it was; it
\* creates a new, empty collection only when there is none.  Either way
\* the store's handle refers to the collection afterwards.
C12_ConstructorGetsOrCreates ==
    last.op = "RAGSystem" =>
        /\ db.exists
        /\ HandleLive
        /\ last.ret.dbBefore.exists => db = last.ret.dbBefore
        /\ ~last.ret.dbBefore.exists => db = EmptyCollection

C12_Witness ==
    /\ last.op = "RAGSystem"
    /\ last.ret.dbBefore.exists
    /\ Cardinality(DOMAIN db.entries) >= 2

\* the papers of the corpus are JSON objects with pairwise distinct ids
DistinctPaperIds ==
    /\ \A i \in 1..Len(procCorpus) :
           IsDict(procCorpus[i]) /\ "id" \in DOMAIN procCorpus[i]
    /\ \A i, j \in 1..Len(procCorpus) :
           i < j => procCorpus[i].id # procCorpus[j].id

\* C13: for a corpus whose papers have pairwise distinct ids, whatever the
\* ids of papers, tables and images are, the chunk_ids of process_corpus's
\* output are pairwise distinct.
C13_ChunkIdsAreDistinct ==
    (corpusOut # Pending /\ DistinctPaperIds) =>
        \A k, l \in 1..Len(corpusOut.docs) :
            k < l => corpusOut.docs[k].metadata.chunk_id
                         # corpusOut.docs[l].metadata.chunk_id

\* the output of process_paper for the papers that do not raise, in order
RECURSIVE DocsOfSoundPapers(_)
DocsOfSoundPapers(ps) ==
    IF ps = <<>> THEN <<>>
    ELSE (IF process_paper(Head(ps)).raised = "none"
          THEN process_paper(Head(ps)).docs ELSE <<>>)
         \o DocsOfSoundPapers(Tail(ps))

\* C19: process_corpus isolates failures per paper: it returns, whatever
\* papers raise, and its result is the concatenation, in corpus order, of
\* process_paper's output for the papers that did not raise.
C19_FailuresAreIsolatedPerPaper ==
    corpusOut # Pending =>
        /\ corpusOut.raised = "none"
        /\ corpusOut.docs = DocsOfSoundPapers(procCorpus)

\* C14: on a data directory without corpus files, initialize_system() with
\* its default download_data = False returns normally having created and
\* indexed the sample papers: the collection holds chunks afterwards and
\* search_documents returns results.
C14_EmptyDirectoryGetsSamplePapers ==
    ( /\ last.op = "initialize_system"
      /\ ~last.args.download_data
      /\ last.ret.corpus_files = 0 )
    => /\ last.raised = "none"
       /\ DOMAIN db.entries # {}
       /\ HandleLive =>
              \A query \in Queries :
                  \A found \in search_documents(query, NoneV, NoneV) :
                      found # <<>>


\* the result of generate_answer when there is nothing to answer from
NoDocumentsResult ==
    [answer |-> S_noDocsAnswer, context |-> <<>>, error |-> S_noDocsError]

\* C15: without an LLM (no OpenAI API key) generate_answer returns the
\* result whose error is "LLM not configured" and whose context is empty,
\* having searched nothing and called no LLM, whatever the collection holds
\* and whatever documents it was given; search_documents still answers from
\* the collection: without a filter it returns as many chunks as were asked
\* for, or the whole live collection.
C15_NoLLMReturnsNotConfigured ==
    ~llm =>
    /\ last.op = "generate_answer" =>
         /\ last.raised = "none"
         /\ last.ret = [answer  |-> S_noLLMAnswer,
                        context |-> <<>>,
                        error   |-> S_noLLMError]
         /\ last.trace.searches = <<>>
         /\ last.trace.inputs = <<>>
         /\ last.trace.prompts = <<>>
         /\ last.trace.outcome = "not called"
    /\ ( /\ last.op = "search_documents"
         /\ HandleLive
         /\ ~TruthyStr(last.args.content_type) ) =>
           /\ last.raised = "none"
           /\ Len(last.ret) = Min2(AskedN, Cardinality(DOMAIN db.entries))
           /\ \A i \in 1..Len(last.ret) : last.ret[i].id \in DOMAIN db.entries

C15_Witness ==
    /\ ~llm
    /\ last.op = "generate_answer"
    /\ last.args.context_documents = NoneV
    /\ HandleLive
    /\ DOMAIN db.entries # {}
    /\ last.ret.error = S_noLLMError

\* C16: a generate_answer call whose LLM chain raised returns normally: the
\* result's error is the text of the exception, its context is the list of
\* chunks the call worked with (never empty, as the chain runs only on
\* documents), and the call left the collection and its handle as they
\* were.  (A step from idle to idle that leaves the corpus files alone is
\* one whole call, the one last' reports.)
C16_ChainFailureIsReturned ==
    [][ ( /\ pc = "idle" /\ pc' = "idle" /\ files' = files
          /\ last'.op = "generate_answer"
          /\ last'.trace.outcome = "raise" ) =>
            /\ last'.raised = "none"
            /\ DOMAIN last'.ret = {"answer", "context", "error"}
            /\ \E o \in LLMOutcomes :
                   /\ o.kind = "raise"
                   /\ last'.ret.error = o.text
                   /\ last'.ret.answer = S_failedAnswer \o o.text
            /\ last'.ret.context = ChunksInUse'
            /\ ChunksInUse' # <<>>
            /\ db' = db
            /\ handle' = handle ]_vars

C16_Witness ==
    /\ last.op = "generate_answer"
    /\ last.trace.outcome = "raise"
    /\ last.args.context_documents = NoneV
    /\ Len(last.ret.context) >= 2
    /\ last.ret.error = <<"4", "2", "9">>

\* C17: a search on a collection that was deleted returns the empty list
\* and raises nothing, and generate_answer, searching for itself, then
\* returns the "No relevant documents found" result without calling the
\* LLM: the same result a search without matches (an empty collection)
\* gives.
C17_FailedSearchIsAnEmptySearch ==
    /\ (last.op = "search_documents" /\ ~HandleLive) =>
         /\ last.raised = "none"
         /\ last.ret = <<>>
    /\ ( /\ last.op = "generate_answer"
         /\ llm
         /\ last.args.context_documents = NoneV
         /\ (~HandleLive \/ DOMAIN db.entries = {}) ) =>
           /\ last.raised = "none"
           /\ last.ret = NoDocumentsResult
           /\ Len(last.trace.searches) = 1
           /\ last.trace.searches[1].found = <<>>
           /\ last.trace.outcome = "not called"

C17_Witness ==
    /\ ~HandleLive
    /\ llm
    /\ last.op = "generate_answer"
    /\ last.args.context_documents = NoneV
    /\ last.ret.error = S_noDocsError

\* C18: with an LLM, generate_answer searches exactly once (n_results or
\* TOP_K_RESULTS chunks, no filter) when context_documents is None and not
\* at all when the caller supplied documents; without an LLM it never
\* searches.  When the documents in use are empty, supplied so or found
\* so, the LLM is not called and the result is the "No relevant documents
\* found" error with empty context; when there are documents the LLM is
\* called.
C18_SearchOnlyWithoutGivenDocuments ==
    last.op = "generate_answer" =>
    /\ (last.trace.searches # <<>>)
         <=> (llm /\ last.args.context_documents = NoneV)
    /\ last.trace.searches # <<>> =>
         /\ Len(last.trace.searches) = 1
         /\ last.trace.searches[1].n = AskedN
         /\ last.trace.searches[1].where = NoneV
    /\ (llm /\ ChunksInUse = <<>>) =>
         /\ last.trace.outcome = "not called"
         /\ last.trace.inputs = <<>>
         /\ last.trace.prompts = <<>>
         /\ last.ret = NoDocumentsResult
    /\ (llm /\ ChunksInUse # <<>>) => last.trace.outcome # "not called"

C18_Witness ==
    /\ llm
    /\ last.op = "generate_answer"
    /\ last.args.context_documents = Some(GivenDocs)
    /\ HandleLive
    /\ DOMAIN db.entries # {}
    /\ last.trace.searches = <<>>
    /\ last.trace.outcome = "ok"


\* the chunks of the corpus files, paper by paper
CorpusChunks ==
    UNION { { <<name, k>> :
                  k \in 1..Len(process_paper(files.papers[name]).docs) }
            : name \in DOMAIN files.papers }

\* the chunk ids of the corpus files
CorpusChunkIds ==
    { process_paper(files.papers[c[1]]).docs[c[2]].metadata.chunk_id :
          c \in CorpusChunks }

C21_AppInitializesOnlyAnEmptyStore ==
    last.op = "initialize_rag_system" =>
        LET before == _get_or_create_collection(last.ret.dbBefore)
            count  == Cardinality(DOMAIN before.entries)
        IN  /\ last.raised = "none"
            /\ last.ret.document_count = Some(count)
            /\ (pc # "idle") <=> (count = 0)
            /\ count # 0 => /\ db = last.ret.dbBefore
                            /\ handle = "current"

C21_Witness ==
    /\ last.op = "initialize_rag_system"
    /\ last.ret.document_count # Some(0)
    /\ pc = "idle"
    /\ DOMAIN db.entries # {}
    /\ DOMAIN files.papers # {}


\* a step of RAGAgent(config) or rebuild_index(): the other steps edit the
\* corpus directory or remove the index directory
AgentCallStep ==
    /\ agentCorpus' = agentCorpus
    /\ ~(indexStore # NoneV /\ indexStore' = NoneV)

\* C22: a construction that gets as far as the index (an API key is set)
\* loads what is persisted when INDEX_PATH exists, whatever the corpus
\* holds and even when the corpus cannot be read, and leaves the persisted
\* index as it is; when INDEX_PATH is absent it reads the corpus, and a
\* readable corpus becomes the index and is persisted, so that INDEX_PATH
\* exists afterwards.  rebuild_index reads the corpus whatever is
\* persisted; when it returns, the current corpus is both self.index and
\* the persisted index; when it raises, self.index is what it was.
C22_IndexIsLoadedBuiltAndRebuilt ==
    [][ AgentCallStep =>
        /\ (agentLast'.op = "RAGAgent" /\ agentLast'.key /\ indexStore # NoneV) =>
             /\ indexStore' = indexStore
             /\ agentLast'.raised # "ValueError"
             /\ agentLast'.raised = "none" =>
                    /\ agent' # NoneV
                    /\ agent'[1].index = indexStore[1]
        /\ (agentLast'.op = "RAGAgent" /\ agentLast'.key /\ indexStore = NoneV) =>
             IF ReadCorpus(agentCorpus).raised = "none"
             THEN /\ indexStore' = Some(agentCorpus.docs)
                  /\ agentLast'.raised = "none" =>
                         /\ agent' # NoneV
                         /\ agent'[1].index = agentCorpus.docs
             ELSE /\ agentLast'.raised = "ValueError"
                  /\ indexStore' = NoneV
                  /\ agent' = agent
        /\ agentLast'.op = "rebuild_index" =>
             /\ agent # NoneV /\ agent' # NoneV
             /\ ReadCorpus(agentCorpus).raised # "none" =>
                    agentLast'.raised = "ValueError"
             /\ agentLast'.raised = "none" =>
                    /\ agent'[1].index = agentCorpus.docs
                    /\ indexStore' = Some(agentCorpus.docs)
             /\ agentLast'.raised # "none" => agent' = agent
      ]_vars

C22_Witness ==
    /\ agentLast.op = "rebuild_index"
    /\ agentLast.raised = "OSError"
    /\ agent # NoneV
    /\ indexStore # NoneV
    /\ agent[1].index # indexStore[1]
    /\ agentCorpus.exists
    /\ agent[1].index # agentCorpus.docs


\* the node list _context_search ends with, by the calls it made
FinalNodes ==
    IF agentLast.trace.reranker # <<>>
       /\ agentLast.trace.reranker[1].returned # <<>>
    THEN agentLast.trace.reranker[1].returned
    ELSE agentLast.trace.nodes

\* C23: _context_search asks the retriever for top_k nodes, or TOP_K when
\* top_k is None or 0, and returns "No documents found." exactly when the
\* retriever gave no node.  The reranker is called once, on the retrieved
\* nodes, when the agent has one and there are nodes, and not otherwise;
\* when it returns nothing the retrieved nodes stay in use.  With nodes,
\* the result is the contents of the final nodes, in their order, joined
\* by newlines.
C23_ContextSearchJoinsTheFinalNodes ==
    agentLast.op = "_context_search" =>
        LET t == agentLast.trace
        IN  /\ agentLast.raised = "none"
            /\ t.top_k = IF agentLast.args.top_k = NoneV
                            \/ agentLast.args.top_k[1] = 0
                         THEN agent[1].config.TOP_K
                         ELSE agentLast.args.top_k[1]
            /\ (agentLast.ret = S_noDocuments) <=> (t.nodes = <<>>)
            /\ (t.reranker # <<>>)
                 <=> (agent[1].reranker # NoneV /\ t.nodes # <<>>)
            /\ t.reranker # <<>> =>
                 /\ Len(t.reranker) = 1
                 /\ t.reranker[1].given = t.nodes
            /\ t.nodes # <<>> =>
                 /\ FinalNodes # <<>>
                 /\ agentLast.ret = join(<<"\n">>, FinalNodes)

C23_Witness ==
    /\ agentLast.op = "_context_search"
    /\ agent[1].reranker # NoneV
    /\ Len(agentLast.trace.nodes) >= 2
    /\ agentLast.trace.reranker # <<>>
    /\ agentLast.trace.reranker[1].returned = <<>>
    /\ agentLast.ret = join(<<"\n">>, agentLast.trace.nodes)


\* C24: search_documents hands the store the caller's n_results when that
\* is positive and TOP_K_RESULTS, which is 5, when it is None or 0; it
\* returns what the store's search returned, which never has more entries
\* than were asked for.
C24_SearchAsksForNResults ==
    last.op = "search_documents" =>
        LET given == last.args.n_results
        IN  /\ Len(last.trace.searches) = 1
            /\ last.trace.searches[1].n =
                   IF given # NoneV /\ given[1] > 0 THEN given[1] ELSE 5
            /\ last.ret = last.trace.searches[1].found
            /\ Len(last.ret) <= last.trace.searches[1].n

C24_Witness ==
    /\ last.op = "search_documents"
    /\ last.args.n_results = Some(1)
    /\ last.args.content_type = NoneV
    /\ HandleLive
    /\ Cardinality(DOMAIN db.entries) >= 2
    /\ Len(last.ret) = 1

\* the line of 50 "=" characters
RuleLine == Repeat("=", SeparatorWidth)

\* C25: the context _format_context builds for generate_answer holds one
\* block per document, in input order and numbered from 1, and between
\* every two consecutive blocks there is the line of 50 "=" characters.
C25_BlocksAreSeparatedByRuleLines ==
    (last.op = "generate_answer" /\ last.trace.inputs # <<>>) =>
        LET docs    == ChunksInUse
            context == last.trace.inputs[1].context
        IN  /\ \A i \in 1..Len(docs) :
                   Contains(context, ContextPart(docs[i], i))
            /\ \A i \in 1..(Len(docs) - 1) :
                   \E p, q \in 1..Len(context) :
                       /\ OccursAt(context, ContextPart(docs[i], i), p)
                       /\ OccursAt(context, ContextPart(docs[i + 1], i + 1), q)
                       /\ p + Len(ContextPart(docs[i], i)) <= q
                       /\ Contains(SubSeq(context,
                                          p + Len(ContextPart(docs[i], i)), q - 1),
                                   RuleLine)


\* the positions of the last add_documents batch without a chunk_id
WithoutChunkId ==
    { k \in 1..Len(last.args.documents) :
          "chunk_id" \notin DOMAIN last.args.documents[k].metadata }

\* C26: in an add_documents call a document without chunk_id is submitted
\* under "chunk_<its position in the batch>"; the submitted ids are
\* pairwise distinct when the chunk_ids that are present are; and no
\* fallback id is an id the collection already held.
C26_FallbackIdsDoNotCollide ==
    (last.op = "add_documents" /\ last.args.documents # <<>>) =>
        LET docs == last.args.documents
            ids  == last.ret.ids
            with == (1..Len(docs)) \ WithoutChunkId
        IN  /\ \A k \in WithoutChunkId : ids[k] = S_fallbackId \o str(k - 1)
            /\ (\A i, j \in with :
                    i # j => docs[i].metadata.chunk_id # docs[j].metadata.chunk_id)
                 => ~HasDuplicates(ids)
            /\ \A k \in WithoutChunkId :
                   ids[k] \notin DOMAIN last.ret.dbBefore.entries

====
